---- MODULE Spec2Model ----
(***************************************************************************)
(* Battlesnake game format: the archive codec (Encode / Decode) and the    *)
(* view-to-move translation (ViewGame.ToMove) of main.go.                  *)
(*                                                                         *)
(* Go values are modelled as follows.                                      *)
(*   - a struct is a record; the View structs keep their Go field names,   *)
(*     the Move structs are named by their json tags (payload.you.id ...); *)
(*   - a slice is [nil, e]: nil tells a nil slice from an empty one, e is  *)
(*     the element sequence;                                               *)
(*   - a pointer is [nil |-> TRUE] or [nil |-> FALSE, v |-> value];        *)
(*   - an error is [nil |-> TRUE] or [nil |-> FALSE, fmt, d, s]: the       *)
(*     format and its integer or string argument;                          *)
(*   - a run-time panic (index out of range) is an outcome of its own.     *)
(* int is taken to be 64 bits wide, so int(turn)+1 never wraps for an      *)
(* int32 turn.  The strings of a record are valid UTF-8 text, which the    *)
(* JSON encoder writes and the decoder reads back unchanged.               *)
(***************************************************************************)
EXTENDS Integers, Sequences, FiniteSets, TLC

VARIABLES
    game,      \* the *ViewGame the operations are applied to
    game0,     \* history: the record as it was constructed
    op,        \* the operation that ran last: "none", "ToMove", "Encode", "Decode"
    turn,      \* ToMove: the turn argument of the last call
    snakeId,   \* ToMove: the snakeId argument of the last call
    result,    \* ToMove: what the last call produced
    buf,       \* Encode: the bytes.Buffer, as the archive it holds
    encErr,    \* Encode: the error returned
    data,      \* Decode: the archive handed to the last call
    decoded    \* Decode: what the last call produced

vars == <<game, game0, op, turn, snakeId, result, buf, encErr, data, decoded>>

----------------------------------------------------------------------------
(* Bounds of the model *)

MaxFrames == 2      \* a record has 0..MaxFrames frames
MaxSnakes == 2      \* a frame has 0..MaxSnakes snakes

----------------------------------------------------------------------------
(* Go values *)

NilSlice == [nil |-> TRUE, e |-> <<>>]
MkSlice(s) == [nil |-> FALSE, e |-> s]
len(sl) == Len(sl.e)

NilPtr == [nil |-> TRUE]
Ptr(v) == [nil |-> FALSE, v |-> v]

\* an error built by fmt.Errorf / errors.New: the format and its argument
\* (d for a %d argument, s for a string argument)
NilErr == [nil |-> TRUE]
ErrorfD(f, n) == [nil |-> FALSE, fmt |-> f, d |-> n, s |-> ""]
ErrorfS(f, str) == [nil |-> FALSE, fmt |-> f, d |-> 0, s |-> str]

----------------------------------------------------------------------------
(* View structs *)

ViewCoord(x, y) == [X |-> x, Y |-> y]

ViewDeath(cause, t, by) == [Cause |-> cause, Turn |-> t, EliminatedBy |-> by]

ViewSnake(id, name, body, health, death) ==
    [ID |-> id, Name |-> name, URL |-> "http://snake", Body |-> body,
     Health |-> health, Color |-> "#00ff00", HeadType |-> "default",
     TailType |-> "default", Latency |-> "12", Shout |-> "", Squad |-> "",
     APIVersion |-> "1", Author |-> "", Death |-> death]

ViewFrame(t, snakes, food, hazards) ==
    [Turn |-> t, Snakes |-> snakes, Food |-> food, Hazards |-> hazards]

ViewRuleset(fsc, mf, dpt) ==
    [FoodSpawnChance |-> fsc, MinimumFood |-> mf, Name |-> "standard",
     Map |-> "", MapAuthor |-> "", DamagePerTurn |-> dpt]

ViewGameSettings(rs) ==
    [ID |-> "g-1", Ruleset |-> rs, Timeout |-> 500, Status |-> "complete",
     Width |-> 11, Height |-> 7]

ViewGame(settings, frames, first, last) ==
    [Game |-> settings, Frames |-> frames, FirstFrame |-> first, LastTurn |-> last]

----------------------------------------------------------------------------
(* Translation functions *)

\* convertCoord: the struct conversion MoveCoord(c)
convertCoord(c) == [x |-> c.X, y |-> c.Y]

convertCoordsReversed(coords) ==
    MkSlice([i \in 1..len(coords) |-> convertCoord(coords.e[len(coords) + 1 - i])])

\* convertCoords: a fresh slice (make, never nil) of the converted elements
convertCoords(coords) ==
    MkSlice([i \in 1..len(coords) |-> convertCoord(coords.e[i])])

frameMissingOffByOne(g, t) == len(g.Frames) < t

\* getFrame's test: len(game.Frames) < int(turn)+1
frameMissing(g, t) == len(g.Frames) < t + 1

\* getFrame: the error, or &game.Frames[turn]; the index expression panics
\* when turn is outside 0..len-1
getFrame(g, t) ==
    IF frameMissing(g, t)
    THEN [panic |-> FALSE, frame |-> NilPtr,
          err |-> ErrorfD("no frame found for turn %d", t)]
    ELSE IF t < 0 \/ t >= len(g.Frames)
         THEN [panic |-> TRUE, frame |-> NilPtr, err |-> NilErr]
         ELSE [panic |-> FALSE, frame |-> Ptr(g.Frames.e[t + 1]), err |-> NilErr]

\* the MoveBattlesnake literal built from a frame snake (body non-empty)
MoveBattlesnake(fs) ==
    [id |-> fs.ID, name |-> fs.Name, health |-> fs.Health,
     body |-> convertCoords(fs.Body),
     head |-> convertCoord(fs.Body.e[1]),
     length |-> len(fs.Body), latency |-> fs.Latency, shout |-> fs.Shout,
     squad |-> fs.Squad]

youEntryTailHead(fs) ==
    [MoveBattlesnake(fs) EXCEPT !.head = convertCoord(fs.Body.e[len(fs.Body)])]

\* the literal assigned to you
youEntry(fs) == MoveBattlesnake(fs)

\* the literal appended to snakes
boardEntry(fs) == MoveBattlesnake(fs)

matchYouFirst(you, id, fs) ==
    IF id = fs.ID /\ you.nil THEN Ptr(youEntry(fs)) ELSE you

matchYouAlways(you, id, fs) == Ptr(youEntry(fs))

\* if snakeId == frameSnake.ID { you = &MoveBattlesnake{...} }
matchYou(you, id, fs) ==
    IF id = fs.ID THEN Ptr(youEntry(fs)) ELSE you

\* for _, frameSnake := range frame.Snakes: st is the loop state; Body[0]
\* panics on a snake with an empty body
RECURSIVE rangeSnakes(_, _, _, _)
rangeSnakes(fsnakes, i, id, st) ==
    IF i > Len(fsnakes)
    THEN st
    ELSE IF len(fsnakes[i].Body) = 0
         THEN [st EXCEPT !.panic = TRUE]
         ELSE rangeSnakes(fsnakes, i + 1, id,
                  [panic |-> FALSE,
                   you |-> matchYou(st.you, id, fsnakes[i]),
                   snakes |-> Append(st.snakes, boardEntry(fsnakes[i]))])

\* Turn: turn
payloadTurn(frame, t) == t

\* the MoveGameState literal returned on success
MoveGameState(g, frame, t, snakes, you) ==
    [game |-> [id |-> g.Game.ID,
               ruleset |-> [name |-> g.Game.Ruleset.Name,
                            version |-> "",
                            settings |->
                              [foodSpawnChance |-> g.Game.Ruleset.FoodSpawnChance,
                               minimumFood |-> g.Game.Ruleset.MinimumFood,
                               hazardDamagePerTurn |-> g.Game.Ruleset.DamagePerTurn,
                               royale |-> [shrinkEveryNTurns |-> 0],
                               squad |-> [allowBodyCollisions |-> FALSE,
                                          sharedElimination |-> FALSE,
                                          sharedHealth |-> FALSE,
                                          sharedLength |-> FALSE]]],
               timeout |-> g.Game.Timeout],
     turn |-> payloadTurn(frame, t),
     board |-> [width |-> g.Game.Width, height |-> g.Game.Height,
                snakes |-> MkSlice(snakes),
                food |-> convertCoords(frame.Food),
                hazards |-> convertCoords(frame.Hazards)],
     you |-> you]

Panic == [kind |-> "panic", payload |-> NilPtr, err |-> NilErr]
Return(p, e) == [kind |-> "return", payload |-> p, err |-> e]

\* ViewGame.ToMove
ToMove(g, t, id) ==
    LET fr == getFrame(g, t) IN
    IF fr.panic THEN Panic
    ELSE IF ~fr.err.nil THEN Return(NilPtr, fr.err)
    ELSE LET frame == fr.frame.v
             st == rangeSnakes(frame.Snakes.e, 1, id,
                       [panic |-> FALSE, you |-> NilPtr, snakes |-> <<>>])
         IN  IF st.panic THEN Panic
             ELSE IF st.you.nil
                  THEN Return(NilPtr, ErrorfS("no snake ID found matching %s", id))
                  ELSE Return(Ptr(MoveGameState(g, frame, t, st.snakes, st.you.v)),
                              NilErr)

gameAfterToMoveDropsSnake(g, t) ==
    IF t >= 0 /\ t < len(g.Frames) /\ len(g.Frames.e[t + 1].Snakes) > 0
    THEN [g EXCEPT !.Frames.e[t + 1].Snakes.e = Tail(@)]
    ELSE g

\* the record after a call of ToMove: the method assigns through neither game
\* nor frame, and convertCoords copies into slices of its own
gameAfterToMove(g, t) == g

----------------------------------------------------------------------------
(* encoding/json, as far as Encode and Decode use it.  A JSON document is a *)
(* tree: number, string, null, array, object (an ordered list of members);  *)
(* the text of a string written for a ",string" integer is kept as its      *)
(* sequence of characters.                                                  *)

JNull == [t |-> "null"]
JNum(n) == [t |-> "number", n |-> n]
JStr(str) == [t |-> "string", s |-> str]
JQuoted(chars) == [t |-> "string", chars |-> chars]
JArr(a) == [t |-> "array", a |-> a]
JObj(m) == [t |-> "object", m |-> m]
JInvalid == [t |-> "invalid"]
KV(k, v) == [k |-> k, v |-> v]

Digits == <<"0", "1", "2", "3", "4", "5", "6", "7", "8", "9">>

RECURSIVE FormatUint(_)
FormatUint(n) ==
    IF n < 10 THEN <<Digits[n + 1]>>
    ELSE Append(FormatUint(n \div 10), Digits[(n % 10) + 1])

FormatIntNoSign(n) == IF n < 0 THEN FormatUint(-n) ELSE FormatUint(n)

\* the decimal text of an int32, as the encoder writes it
FormatInt(n) == IF n < 0 THEN <<"-">> \o FormatUint(-n) ELSE FormatUint(n)

DigitValue(c) == CHOOSE d \in 0..9 : Digits[d + 1] = c
IsDigit(c) == \E d \in 0..9 : Digits[d + 1] = c

RECURSIVE ParseUint(_)
ParseUint(chars) ==
    IF Len(chars) = 0 THEN 0
    ELSE ParseUint(SubSeq(chars, 1, Len(chars) - 1)) * 10 + DigitValue(chars[Len(chars)])

\* the decoder's reading of a quoted integer: an optional '-', then digits
ValidInt(chars) ==
    LET ds == IF Len(chars) > 0 /\ chars[1] = "-" THEN Tail(chars) ELSE chars
    IN  Len(ds) > 0 /\ \A i \in 1..Len(ds) : IsDigit(ds[i])

ParseInt(chars) ==
    IF chars[1] = "-" THEN -ParseUint(Tail(chars)) ELSE ParseUint(chars)

\* Marshal, type by type (the json tags of the View structs)

MInt(n) == JNum(n)

\* an int32 field tagged ",string"
MQuotedInt(n) == JQuoted(FormatInt(n))

MString(str) == JStr(str)

MCoord(c) == JObj(<<KV("X", MInt(c.X)), KV("Y", MInt(c.Y))>>)

\* a slice is written as null when nil and as an array otherwise
MCoords(sl) ==
    IF sl.nil THEN JNull ELSE JArr([i \in 1..len(sl) |-> MCoord(sl.e[i])])

MDeath(d) ==
    JObj(<<KV("Cause", MString(d.Cause)), KV("Turn", MInt(d.Turn)),
           KV("EliminatedBy", MString(d.EliminatedBy))>>)

MSnake(sn) ==
    JObj(<<KV("ID", MString(sn.ID)), KV("Name", MString(sn.Name)),
           KV("URL", MString(sn.URL)), KV("Body", MCoords(sn.Body)),
           KV("Health", MInt(sn.Health)), KV("Color", MString(sn.Color)),
           KV("HeadType", MString(sn.HeadType)), KV("TailType", MString(sn.TailType)),
           KV("Latency", MString(sn.Latency)), KV("Shout", MString(sn.Shout)),
           KV("Squad", MString(sn.Squad)), KV("APIVersion", MString(sn.APIVersion)),
           KV("Author", MString(sn.Author)), KV("Death", MDeath(sn.Death))>>)

MSnakes(sl) ==
    IF sl.nil THEN JNull ELSE JArr([i \in 1..len(sl) |-> MSnake(sl.e[i])])

MFrame(f) ==
    JObj(<<KV("Turn", MInt(f.Turn)), KV("Snakes", MSnakes(f.Snakes)),
           KV("Food", MCoords(f.Food)), KV("Hazards", MCoords(f.Hazards))>>)

MFrames(sl) ==
    IF sl.nil THEN JNull ELSE JArr([i \in 1..len(sl) |-> MFrame(sl.e[i])])

MRuleset(r) ==
    JObj(<<KV("foodSpawnChance", MQuotedInt(r.FoodSpawnChance)),
           KV("minimumFood", MQuotedInt(r.MinimumFood)),
           KV("name", MString(r.Name)), KV("map", MString(r.Map)),
           KV("map_author", MString(r.MapAuthor)),
           KV("damagePerTurn", MQuotedInt(r.DamagePerTurn))>>)

MSettings(gs) ==
    JObj(<<KV("ID", MString(gs.ID)), KV("Ruleset", MRuleset(gs.Ruleset)),
           KV("SnakeTimeout", MInt(gs.Timeout)), KV("Status", MString(gs.Status)),
           KV("Width", MInt(gs.Width)), KV("Height", MInt(gs.Height))>>)

\* json.Marshal(game)
Marshal(g) ==
    JObj(<<KV("Game", MSettings(g.Game)), KV("Frames", MFrames(g.Frames)),
           KV("FirstFrame", MFrame(g.FirstFrame)), KV("LastTurn", MInt(g.LastTurn))>>)

\* Unmarshal, type by type: [ok, v].  A member that is absent or null leaves
\* the zero value; of members with the same name the last one counts.

Good(v) == [ok |-> TRUE, v |-> v]
Bad == [ok |-> FALSE]

Member(obj, key) ==
    LET hits == {i \in 1..Len(obj.m) : obj.m[i].k = key}
    IN  IF hits = {} THEN JNull
        ELSE obj.m[CHOOSE i \in hits : \A j \in hits : j <= i].v

UInt(v) ==
    IF v.t = "null" THEN Good(0)
    ELSE IF v.t = "number" THEN Good(v.n) ELSE Bad

UString(v) ==
    IF v.t = "null" THEN Good("")
    ELSE IF v.t = "string" /\ "s" \in DOMAIN v THEN Good(v.s) ELSE Bad

UQuotedInt(v) ==
    IF v.t = "null" THEN Good(0)
    ELSE IF v.t = "string" /\ "chars" \in DOMAIN v /\ ValidInt(v.chars)
         THEN Good(ParseInt(v.chars)) ELSE Bad

UCoord(v) ==
    IF v.t = "null" THEN Good(ViewCoord(0, 0))
    ELSE IF v.t # "object" THEN Bad
    ELSE LET x == UInt(Member(v, "X"))  y == UInt(Member(v, "Y"))
         IN  IF x.ok /\ y.ok THEN Good(ViewCoord(x.v, y.v)) ELSE Bad

\* null leaves the slice nil; an array gives a slice of its own, empty or not
UCoords(v) ==
    IF v.t = "null" THEN Good(NilSlice)
    ELSE IF v.t = "array" /\ \A i \in 1..Len(v.a) : UCoord(v.a[i]).ok
         THEN Good(MkSlice([i \in 1..Len(v.a) |-> UCoord(v.a[i]).v]))
         ELSE Bad

UDeath(v) ==
    IF v.t = "null" THEN Good(ViewDeath("", 0, ""))
    ELSE IF v.t # "object" THEN Bad
    ELSE LET c == UString(Member(v, "Cause"))
             t == UInt(Member(v, "Turn"))
             e == UString(Member(v, "EliminatedBy"))
         IN  IF c.ok /\ t.ok /\ e.ok THEN Good(ViewDeath(c.v, t.v, e.v)) ELSE Bad

SnakeStrings ==
    <<"ID", "Name", "URL", "Color", "HeadType", "TailType", "Latency", "Shout",
      "Squad", "APIVersion", "Author">>

ZeroSnake ==
    [ID |-> "", Name |-> "", URL |-> "", Body |-> NilSlice, Health |-> 0,
     Color |-> "", HeadType |-> "", TailType |-> "", Latency |-> "", Shout |-> "",
     Squad |-> "", APIVersion |-> "", Author |-> "", Death |-> ViewDeath("", 0, "")]

USnake(v) ==
    IF v.t = "null" THEN Good(ZeroSnake)
    ELSE IF v.t # "object" THEN Bad
    ELSE LET b == UCoords(Member(v, "Body"))
             h == UInt(Member(v, "Health"))
             d == UDeath(Member(v, "Death"))
             str(k) == UString(Member(v, k))
         IN  IF b.ok /\ h.ok /\ d.ok /\ \A i \in 1..Len(SnakeStrings) : str(SnakeStrings[i]).ok
             THEN Good([ID |-> str("ID").v, Name |-> str("Name").v, URL |-> str("URL").v,
                        Body |-> b.v, Health |-> h.v, Color |-> str("Color").v,
                        HeadType |-> str("HeadType").v, TailType |-> str("TailType").v,
                        Latency |-> str("Latency").v, Shout |-> str("Shout").v,
                        Squad |-> str("Squad").v, APIVersion |-> str("APIVersion").v,
                        Author |-> str("Author").v, Death |-> d.v])
             ELSE Bad

USnakes(v) ==
    IF v.t = "null" THEN Good(NilSlice)
    ELSE IF v.t = "array" /\ \A i \in 1..Len(v.a) : USnake(v.a[i]).ok
         THEN Good(MkSlice([i \in 1..Len(v.a) |-> USnake(v.a[i]).v]))
         ELSE Bad

UFrame(v) ==
    IF v.t = "null" THEN Good(ViewFrame(0, NilSlice, NilSlice, NilSlice))
    ELSE IF v.t # "object" THEN Bad
    ELSE LET t == UInt(Member(v, "Turn"))
             sn == USnakes(Member(v, "Snakes"))
             f == UCoords(Member(v, "Food"))
             h == UCoords(Member(v, "Hazards"))
         IN  IF t.ok /\ sn.ok /\ f.ok /\ h.ok
             THEN Good(ViewFrame(t.v, sn.v, f.v, h.v)) ELSE Bad

UFrames(v) ==
    IF v.t = "null" THEN Good(NilSlice)
    ELSE IF v.t = "array" /\ \A i \in 1..Len(v.a) : UFrame(v.a[i]).ok
         THEN Good(MkSlice([i \in 1..Len(v.a) |-> UFrame(v.a[i]).v]))
         ELSE Bad

ZeroRuleset ==
    [FoodSpawnChance |-> 0, MinimumFood |-> 0, Name |-> "", Map |-> "",
     MapAuthor |-> "", DamagePerTurn |-> 0]

URuleset(v) ==
    IF v.t = "null" THEN Good(ZeroRuleset)
    ELSE IF v.t # "object" THEN Bad
    ELSE LET fsc == UQuotedInt(Member(v, "foodSpawnChance"))
             mf == UQuotedInt(Member(v, "minimumFood"))
             n == UString(Member(v, "name"))
             mp == UString(Member(v, "map"))
             ma == UString(Member(v, "map_author"))
             dpt == UQuotedInt(Member(v, "damagePerTurn"))
         IN  IF fsc.ok /\ mf.ok /\ n.ok /\ mp.ok /\ ma.ok /\ dpt.ok
             THEN Good([FoodSpawnChance |-> fsc.v, MinimumFood |-> mf.v, Name |-> n.v,
                        Map |-> mp.v, MapAuthor |-> ma.v, DamagePerTurn |-> dpt.v])
             ELSE Bad

ZeroSettings ==
    [ID |-> "", Ruleset |-> ZeroRuleset, Timeout |-> 0, Status |-> "",
     Width |-> 0, Height |-> 0]

USettings(v) ==
    IF v.t = "null" THEN Good(ZeroSettings)
    ELSE IF v.t # "object" THEN Bad
    ELSE LET id == UString(Member(v, "ID"))
             rs == URuleset(Member(v, "Ruleset"))
             to == UInt(Member(v, "SnakeTimeout"))
             st == UString(Member(v, "Status"))
             w == UInt(Member(v, "Width"))
             h == UInt(Member(v, "Height"))
         IN  IF id.ok /\ rs.ok /\ to.ok /\ st.ok /\ w.ok /\ h.ok
             THEN Good([ID |-> id.v, Ruleset |-> rs.v, Timeout |-> to.v,
                        Status |-> st.v, Width |-> w.v, Height |-> h.v])
             ELSE Bad

ZeroGame ==
    ViewGame(ZeroSettings, NilSlice, ViewFrame(0, NilSlice, NilSlice, NilSlice), 0)

\* json.Unmarshal(unzipped, &game), game the zero ViewGame
Unmarshal(v) ==
    IF v.t = "invalid" THEN Bad
    ELSE IF v.t = "null" THEN Good(ZeroGame)
    ELSE IF v.t # "object" THEN Bad
    ELSE LET gs == USettings(Member(v, "Game"))
             fs == UFrames(Member(v, "Frames"))
             ff == UFrame(Member(v, "FirstFrame"))
             lt == UInt(Member(v, "LastTurn"))
         IN  IF gs.ok /\ fs.ok /\ ff.ok /\ lt.ok
             THEN Good(ViewGame(gs.v, fs.v, ff.v, lt.v)) ELSE Bad

----------------------------------------------------------------------------
(* archive/zip, as far as Encode and Decode use it.  An archive is the list *)
(* of its members; zip is FALSE for bytes that are no archive.  A member    *)
(* holds its name, its compression method and its compressed content;      *)
(* sound is FALSE when the content does not inflate to its checksum.        *)

Deflate(doc) == [deflated |-> doc]
Inflate(z) == z.deflated

\* the methods archive/zip registers a decompressor for
SupportedMethods == {"Store", "Deflate"}

ZipFile(name, method, doc, sound) ==
    [name |-> name, method |-> method, z |-> Deflate(doc), sound |-> sound]

Archive(files) == [zip |-> TRUE, files |-> files]
NotAnArchive == [zip |-> FALSE, files |-> <<>>]

\* the empty bytes.Buffer
EmptyBuffer == [zip |-> FALSE, files |-> <<>>]

\* w.Create(name); f.Write(contents); w.Close() on a writer over an empty buffer
zipWrite(b, name, contents) ==
    Archive(b.files \o <<ZipFile(name, "Deflate", contents, TRUE)>>)

\* Encode: the error returned and the buffer afterwards
Encode(g, b) ==
    [err |-> NilErr, buf |-> zipWrite(b, "game.json", Marshal(g))]

fileCountOKAtLeastOne(n) == n >= 1

\* len(r.File) != 1 is an error
fileCountOK(n) == n = 1

Decoded(gp, e, n) == [kind |-> "return", game |-> gp, err |-> e, opened |-> n]

\* Decode: the record or the error, and the number of members it opened
Decode(d) ==
    IF ~d.zip
    THEN Decoded(NilPtr, ErrorfS("error creating new zip reader: %s", "zip: not a valid zip file"), 0)
    ELSE IF ~fileCountOK(Len(d.files))
    THEN Decoded(NilPtr, ErrorfD("expected 1 file in zip archive, found %d", Len(d.files)), 0)
    ELSE IF d.files[1].method \notin SupportedMethods
    THEN Decoded(NilPtr, ErrorfS("error opening zip archive file: %s", "zip: unsupported compression algorithm"), 0)
    ELSE IF ~d.files[1].sound
    THEN Decoded(NilPtr, ErrorfS("error reading compressed game: %s", "zip: checksum error"), 1)
    ELSE LET u == Unmarshal(Inflate(d.files[1].z))
         IN  IF ~u.ok
             THEN Decoded(NilPtr, ErrorfS("error unmarshalling compressed game: %s", "json"), 1)
             ELSE Decoded(Ptr(u.v), NilErr, 1)

----------------------------------------------------------------------------
(* The records and the arguments the operations are applied to *)

NoDeath == ViewDeath("", 0, "")

\* the three snakes named "a" share an ID and differ in everything else; the
\* last one has an empty body
SnakePool ==
    { ViewSnake("a", "alpha", MkSlice(<<ViewCoord(1, 2), ViewCoord(1, 1)>>), 90, NoDeath),
      ViewSnake("a", "again", MkSlice(<<ViewCoord(3, 0)>>), 40,
                ViewDeath("snake-collision", 1, "b")),
      ViewSnake("b", "beta",
                MkSlice(<<ViewCoord(0, 0), ViewCoord(0, 1), ViewCoord(0, 1)>>), 100, NoDeath),
      ViewSnake("a", "empty", NilSlice, 0, NoDeath) }

SnakeIds == {"a", "b", "zz"}

SnakeLists == UNION {[1..n -> SnakePool] : n \in 0..MaxSnakes}

\* the food and hazard lists of a frame
FoodHazardPool ==
    { <<NilSlice, NilSlice>>,
      <<MkSlice(<<ViewCoord(5, 5), ViewCoord(2, 6)>>), MkSlice(<<>>)>>,
      <<MkSlice(<<ViewCoord(4, 4)>>), MkSlice(<<ViewCoord(0, 6), ViewCoord(0, 5)>>)>> }

\* the frames under test: any snake list, any Turn field
ProbeFrames ==
    { ViewFrame(t, MkSlice(sl), fh[1], fh[2]) :
        t \in {0, MaxFrames}, sl \in SnakeLists, fh \in FoodHazardPool }

\* the frame at the other positions: well-formed, and different at each position
FillerFrame(i) ==
    ViewFrame(i - 1,
              MkSlice(<<ViewSnake("a", "filler", MkSlice(<<ViewCoord(i, i)>>), i, NoDeath),
                        ViewSnake("b", "filler", MkSlice(<<ViewCoord(i, 0)>>), i, NoDeath)>>),
              MkSlice(<<ViewCoord(i, 1)>>), NilSlice)

ZeroFrame == ViewFrame(0, NilSlice, NilSlice, NilSlice)

Settings0 == ViewGameSettings(ViewRuleset(25, 1, 14))

GameOf(settings, frames) ==
    ViewGame(settings,
             IF Len(frames) = 0 THEN NilSlice ELSE MkSlice(frames),
             IF Len(frames) = 0 THEN ZeroFrame ELSE frames[1],
             IF Len(frames) = 0 THEN 0 ELSE frames[Len(frames)].Turn)

\* records of 0..MaxFrames frames, one of them a frame under test
MoveGames ==
    {GameOf(Settings0, <<>>)} \cup
    { GameOf(Settings0, [i \in 1..n |-> IF i = k THEN f ELSE FillerFrame(i)]) :
        n \in 1..MaxFrames, k \in 1..MaxFrames, f \in ProbeFrames }

TurnInputs == -2 .. MaxFrames + 1

NoResult == [kind |-> "none", payload |-> NilPtr, err |-> NilErr]
NoArchive == EmptyBuffer
NoDecoded == [kind |-> "none", game |-> NilPtr, err |-> NilErr, opened |-> 0]

Idle ==
    /\ op = "none"
    /\ turn = 0
    /\ snakeId = ""
    /\ result = NoResult
    /\ buf = NoArchive
    /\ encErr = NilErr
    /\ data = NoArchive
    /\ decoded = NoDecoded

InitMove ==
    /\ game \in MoveGames
    /\ game0 = game
    /\ Idle

\* a call game.ToMove(t, id)
ToMoveCall ==
    \E t \in TurnInputs, id \in SnakeIds :
        /\ op' = "ToMove"
        /\ turn' = t
        /\ snakeId' = id
        /\ result' = ToMove(game, t, id)
        /\ game' = gameAfterToMove(game, t)
        /\ UNCHANGED <<game0, buf, encErr, data, decoded>>

NextMove == ToMoveCall

SpecMove == InitMove /\ [][NextMove]_vars

----------------------------------------------------------------------------
(* The records and the archives the codec is applied to *)

\* values of the ruleset integers: zero, one and several digits, a sign, the
\* largest int32
IntPool == {0, 1, 25, -7, 2147483647}

Rulesets ==
    { ViewRuleset(fsc, mf, dpt) : fsc \in IntPool, mf \in {0, 1}, dpt \in {-7, 14, 100} }

EmptyFrame == ViewFrame(1, MkSlice(<<>>), MkSlice(<<>>), MkSlice(<<>>))

RichFrame ==
    ViewFrame(3,
              MkSlice(<<ViewSnake("a", "again", MkSlice(<<ViewCoord(3, 0), ViewCoord(10, 6)>>),
                                  40, ViewDeath("snake-collision", 1, "b")),
                        ViewSnake("b", "hollow", MkSlice(<<>>), 100, NoDeath),
                        ViewSnake("c", "empty", NilSlice, 0, NoDeath)>>),
              MkSlice(<<ViewCoord(5, 5), ViewCoord(2, 6)>>),
              NilSlice)

CodecFramePool == {ZeroFrame, EmptyFrame, RichFrame}

\* every ruleset with one list of frames, and every list of frames with one
\* ruleset; a record whose Frames is empty but not nil
CodecGames ==
    { GameOf(ViewGameSettings(rs), <<RichFrame>>) : rs \in Rulesets }
    \cup { GameOf(Settings0, fs) : fs \in UNION {[1..n -> CodecFramePool] : n \in 0..MaxFrames} }
    \cup { ViewGame(Settings0, MkSlice(<<>>), RichFrame, -1) }

\* {"Game":{"Ruleset":{"foodSpawnChance":"25","minimumFood":"1"}}}
PartialDoc ==
    JObj(<<KV("Game", JObj(<<KV("Ruleset",
               JObj(<<KV("foodSpawnChance", JQuoted(<<"2", "5">>)),
                      KV("minimumFood", JQuoted(<<"1">>))>>))>>))>>)

\* {"Game":{"Ruleset":{"foodSpawnChance":25}}}
NumberDoc ==
    JObj(<<KV("Game", JObj(<<KV("Ruleset",
               JObj(<<KV("foodSpawnChance", JNum(25))>>))>>))>>)

\* archives that Encode did not write
ArchivePool ==
    { NotAnArchive,
      Archive(<<>>),
      Archive(<<ZipFile("game.json", "Deflate", PartialDoc, TRUE),
                ZipFile("game.json", "Deflate", PartialDoc, TRUE)>>),
      Archive(<<ZipFile("game.json", "Deflate", PartialDoc, TRUE),
                ZipFile("meta.json", "Store", JNull, TRUE),
                ZipFile("notes.txt", "Store", JInvalid, FALSE)>>),
      Archive(<<ZipFile("replay.json", "Store", PartialDoc, TRUE)>>),
      Archive(<<ZipFile("game.json", "Deflate", NumberDoc, TRUE)>>),
      Archive(<<ZipFile("game.json", "Deflate", JInvalid, TRUE)>>),
      Archive(<<ZipFile("game.json", "Deflate", PartialDoc, FALSE)>>),
      Archive(<<ZipFile("game.json", "LZMA", PartialDoc, TRUE)>>) }

InitCodec ==
    /\ game \in CodecGames
    /\ game0 = game
    /\ Idle

\* a call Encode(game, &buf) with buf a fresh bytes.Buffer
EncodeCall ==
    \E b \in {EmptyBuffer} :
        /\ op' = "Encode"
        /\ buf' = Encode(game, b).buf
        /\ encErr' = Encode(game, b).err
        /\ UNCHANGED <<game, game0, turn, snakeId, result, data, decoded>>

\* a call Decode(d), d the bytes Encode wrote or an archive from elsewhere
DecodeCall ==
    \E d \in ArchivePool \cup {buf} :
        /\ op' = "Decode"
        /\ data' = d
        /\ decoded' = Decode(d)
        /\ UNCHANGED <<game, game0, turn, snakeId, result, buf, encErr>>

NextCodec == EncodeCall \/ DecodeCall

SpecCodec == InitCodec /\ [][NextCodec]_vars

----------------------------------------------------------------------------
(* Properties of ToMove, over the state after a call game.ToMove(turn, snakeId) *)

Called == op = "ToMove"
InRange == turn >= 0 /\ turn < len(game.Frames)
Located == game.Frames.e[turn + 1]
Succeeded == result.kind = "return" /\ result.err.nil /\ ~result.payload.nil
Payload == result.payload.v

FailedWith(e) == result.kind = "return" /\ result.payload.nil /\ result.err = e
NoFrameFound(t) == [nil |-> FALSE, fmt |-> "no frame found for turn %d", d |-> t, s |-> ""]
NoSnakeFound(id) == [nil |-> FALSE, fmt |-> "no snake ID found matching %s", d |-> 0, s |-> id]

BodiesNonEmpty(frame) == \A i \in 1..len(frame.Snakes) : len(frame.Snakes.e[i].Body) > 0
Matches(frame, id) == {i \in 1..len(frame.Snakes) : frame.Snakes.e[i].ID = id}
UniqueIds(frame) ==
    \A i, j \in 1..len(frame.Snakes) :
        frame.Snakes.e[i].ID = frame.Snakes.e[j].ID => i = j

SameCoords(ms, vs) ==
    /\ Len(ms.e) = Len(vs.e)
    /\ \A j \in 1..Len(vs.e) : ms.e[j].x = vs.e[j].X /\ ms.e[j].y = vs.e[j].Y

\* the move snake ms is the projection of the frame snake fs
ProjectionOf(ms, fs) ==
    /\ ms.id = fs.ID /\ ms.name = fs.Name /\ ms.health = fs.Health
    /\ ms.latency = fs.Latency /\ ms.shout = fs.Shout /\ ms.squad = fs.Squad
    /\ SameCoords(ms.body, fs.Body)
    /\ ms.length = Len(fs.Body.e)
    /\ ms.head.x = fs.Body.e[1].X /\ ms.head.y = fs.Body.e[1].Y

\* the board of payload p is the projection of frame
BoardOf(p, frame) ==
    /\ Len(p.board.snakes.e) = Len(frame.Snakes.e)
    /\ \A i \in 1..Len(frame.Snakes.e) : ProjectionOf(p.board.snakes.e[i], frame.Snakes.e[i])
    /\ SameCoords(p.board.food, frame.Food)
    /\ SameCoords(p.board.hazards, frame.Hazards)

\* C1: for a record of N frames whose located frame has non-empty bodies and
\* holds snakeId, ToMove(t, snakeId) with t >= 0 succeeds exactly when t < N,
\* with the payload built from Frames[t] (whatever that frame's Turn field) and
\* payload.turn = t; when t >= N it returns 'no frame found for turn t' and no
\* payload.
C1_TurnIndexedLookup ==
    (Called /\ turn >= 0) =>
        IF turn < len(game.Frames)
        THEN (BodiesNonEmpty(Located) /\ Matches(Located, snakeId) # {}) =>
                 /\ Succeeded
                 /\ Payload.turn = turn
                 /\ BoardOf(Payload, Located)
        ELSE FailedWith(NoFrameFound(turn))

\* a call that succeeded on a frame other than the first whose Turn field
\* differs from its position
C1_Witness ==
    /\ Called /\ InRange /\ turn > 0 /\ Succeeded
    /\ Located.Turn # turn
    /\ Payload.turn = turn

\* C2: for every negative turn and every record, ToMove fails like an
\* out-of-range turn: it returns 'no frame found for turn t' and no payload.
C2_NegativeTurnFails ==
    (Called /\ turn < 0) => FailedWith(NoFrameFound(turn))

\* C3: if the frame at turn t (ids unique, bodies non-empty) holds a snake with
\* identity id, ToMove(t, id) succeeds, you.id = id and you equals, field for
\* field, the entry of board.snakes with that id.
C3_IdentityResolution ==
    (Called /\ InRange /\ UniqueIds(Located) /\ BodiesNonEmpty(Located)
            /\ Matches(Located, snakeId) # {}) =>
        /\ Succeeded
        /\ Payload.you.id = snakeId
        /\ \E i \in 1..len(Payload.board.snakes) : Payload.board.snakes.e[i].id = snakeId
        /\ \A i \in 1..len(Payload.board.snakes) :
               Payload.board.snakes.e[i].id = snakeId =>
                   Payload.you = Payload.board.snakes.e[i]

\* the requested snake is the second of two, with a body of several coordinates
C3_Witness ==
    /\ Called /\ InRange /\ UniqueIds(Located) /\ Succeeded
    /\ len(Located.Snakes) = 2
    /\ Located.Snakes.e[2].ID = snakeId
    /\ Payload.you.length > 1

\* C4 as stated: if 0 <= t < N and no snake of the frame has identity id,
\* ToMove returns 'no snake ID found matching id' and a nil payload.
C4_IdentityMissAsStated ==
    (Called /\ InRange /\ Matches(Located, snakeId) = {}) =>
        FailedWith(NoSnakeFound(snakeId))

\* C4 amended: if 0 <= t < N, every snake of the frame has a non-empty body and
\* no snake of the frame has identity id (a frame of zero snakes included),
\* ToMove returns 'no snake ID found matching id' and a nil payload.
C4_IdentityMiss ==
    (Called /\ InRange /\ BodiesNonEmpty(Located) /\ Matches(Located, snakeId) = {}) =>
        FailedWith(NoSnakeFound(snakeId))

\* the miss on a frame that has snakes, none of them the requested one
C4_Witness ==
    /\ Called /\ InRange /\ len(Located.Snakes) > 0
    /\ Matches(Located, snakeId) = {}
    /\ FailedWith(NoSnakeFound(snakeId))

\* C5: if any snake of the located frame has an empty body, ToMove fails with
\* the error value 'empty snake body' and no payload.
C5_EmptyBodyIsAnError ==
    (Called /\ InRange /\ ~BodiesNonEmpty(Located)) =>
        /\ result.kind = "return"
        /\ result.payload.nil
        /\ ~result.err.nil
        /\ result.err.fmt = "empty snake body"

\* C8: on every successful ToMove, board.snakes is the element-wise projection
\* of Frames[t].Snakes (same count, same order, same id, body coordinate for
\* coordinate, head the first body coordinate, length the body count), and
\* board.food and board.hazards equal the frame's lists in order.
C8_BoardIsProjection ==
    (Called /\ Succeeded) => InRange /\ BoardOf(Payload, Located)

\* a success on a frame of two snakes, one with a body of three, with food
C8_Witness ==
    /\ Called /\ Succeeded /\ InRange
    /\ len(Located.Snakes) = 2
    /\ \E i \in 1..2 : len(Located.Snakes.e[i].Body) = 3
    /\ len(Located.Food) = 2
    /\ len(Payload.board.food) = 2

C10_LastDuplicateWinsAsStated ==
    (Called /\ InRange /\ Cardinality(Matches(Located, snakeId)) >= 2) =>
        /\ Succeeded
        /\ len(Payload.board.snakes) = len(Located.Snakes)
        /\ \E i \in Matches(Located, snakeId) :
               /\ \A j \in Matches(Located, snakeId) : j <= i
               /\ ProjectionOf(Payload.you, Located.Snakes.e[i])

\* C10 amended: when every snake of the located frame has a non-empty body and
\* two or more of them have the ID snakeId, ToMove succeeds, keeps every
\* duplicate in board.snakes and sets you to the projection of the last match.
C10_LastDuplicateWins ==
    (Called /\ InRange /\ BodiesNonEmpty(Located)
            /\ Cardinality(Matches(Located, snakeId)) >= 2) =>
        /\ Succeeded
        /\ len(Payload.board.snakes) = len(Located.Snakes)
        /\ \A i \in 1..len(Located.Snakes) :
               ProjectionOf(Payload.board.snakes.e[i], Located.Snakes.e[i])
        /\ \E i \in Matches(Located, snakeId) :
               /\ \A j \in Matches(Located, snakeId) : j <= i
               /\ ProjectionOf(Payload.you, Located.Snakes.e[i])

\* two snakes of the same ID and different content, the call succeeded
C10_Witness ==
    /\ Called /\ InRange /\ Succeeded
    /\ Cardinality(Matches(Located, snakeId)) = 2
    /\ Located.Snakes.e[1] # Located.Snakes.e[2]
    /\ Payload.you # Payload.board.snakes.e[1]

----------------------------------------------------------------------------
(* Properties of the codec *)

Encoded == buf # EmptyBuffer
RoundTrip == op = "Decode" /\ Encoded /\ data = buf

\* the ruleset object of the document stored in the only member of buf
StoredRuleset == Member(Member(Inflate(buf.files[1].z), "Game"), "Ruleset")
IsDigitString(v) == v.t = "string" /\ "chars" \in DOMAIN v /\ ValidInt(v.chars)

\* C6: Decode applied to the bytes Encode(r) wrote into an empty buffer
\* succeeds and yields a record equal to r field for field; the ruleset
\* integers foodSpawnChance, minimumFood and damagePerTurn are written as JSON
\* strings of digits and come back as the same integers.
C6_RoundTrip ==
    /\ Encoded =>
          /\ encErr.nil
          /\ IsDigitString(Member(StoredRuleset, "foodSpawnChance"))
          /\ IsDigitString(Member(StoredRuleset, "minimumFood"))
          /\ IsDigitString(Member(StoredRuleset, "damagePerTurn"))
    /\ RoundTrip =>
          /\ decoded.kind = "return" /\ decoded.err.nil /\ ~decoded.game.nil
          /\ decoded.game.v = game
          /\ decoded.game.v.Game.Ruleset.FoodSpawnChance = game.Game.Ruleset.FoodSpawnChance
          /\ decoded.game.v.Game.Ruleset.MinimumFood = game.Game.Ruleset.MinimumFood
          /\ decoded.game.v.Game.Ruleset.DamagePerTurn = game.Game.Ruleset.DamagePerTurn

\* a round trip of a record with a negative and a several-digit ruleset
\* integer, a nil slice and an empty slice
C6_Witness ==
    /\ RoundTrip /\ decoded.err.nil
    /\ game.Game.Ruleset.DamagePerTurn < 0
    /\ game.Game.Ruleset.FoodSpawnChance > 9
    /\ \E i \in 1..len(game.Frames) : game.Frames.e[i] = RichFrame

\* C7: every successful Encode into an empty buffer produces a container with
\* exactly one member, named 'game.json'; Decode of a container of 0 or of 2
\* and more members returns an error and a nil record without reading a
\* member.
C7_SingleEntry ==
    /\ (Encoded /\ encErr.nil) =>
          buf.zip /\ Len(buf.files) = 1 /\ buf.files[1].name = "game.json"
    /\ (op = "Decode" /\ data.zip /\ Len(data.files) # 1) =>
          /\ decoded.kind = "return"
          /\ ~decoded.err.nil
          /\ decoded.game.nil
          /\ decoded.opened = 0

\* Encode has written its container and Decode has refused one of three members
C7_Witness ==
    /\ Encoded /\ Len(buf.files) = 1
    /\ op = "Decode" /\ data.zip /\ Len(data.files) = 3
    /\ ~decoded.err.nil

====
